---------------------------- MODULE Spec2Model ----------------------------
(***************************************************************************)
(* Elimu Hub: the retrieval-augmented query pipeline                       *)
(* (app/retriever.py, app/rag_runner.py, app/main.py /query) and the       *)
(* page segmenter (app/pdf_ingestor.py), and the document store handlers   *)
(* of app/main.py: upload_document, _process_document_background and       *)
(* delete_document over the tables of app/db_models.py and the index.      *)
(*                                                                         *)
(* Similarities and distances are fixed-point numbers in hundredths:       *)
(* distance 18 is 0.18, similarity 82 is 0.82.  Texts are sequences of     *)
(* fragments (one-character strings for page text and generated text, one  *)
(* whole fragment for each fixed message of the code).                     *)
(***************************************************************************)
EXTENDS Integers, Sequences, FiniteSets, TLC

\* ------------------------------------------------------------------ bounds
MaxIndex == 2
MaxContextChunks == 2
MaxInput == 7
MaxChunkSize == 4
MaxPad == 6
ScenarioPageLen == 1200
MaxMalformed == 2
MaxUploads == 2
MaxDocChunks == 2

\* ------------------------------------------------- constants of the program
One == 100
MinScore == 30
HighCutoff == 70
MediumCutoff == 50
OverFetch == 2
ChromaLimit == 100
OllamaTimeoutMs == 120000
SearchBack == 200
CharsPerToken == 4
DefaultChunkSize == 1000
DefaultChunkOverlap == 200

None == "<None>"

\* Python truthiness of an Optional[str] argument (`if subject:`)
Truthy(v) == v # None /\ v # ""

\* str.strip() on a text: leading and trailing whitespace fragments removed
IsSpace(c) == c \in {" ", "\n", "\t"}

IsBlank(s) == \A i \in 1..Len(s) : IsSpace(s[i])

LStrip(s) == IF IsBlank(s) THEN <<>>
             ELSE SubSeq(s, CHOOSE i \in 1..Len(s) :
                               ~IsSpace(s[i]) /\ \A j \in 1..(i - 1) : IsSpace(s[j]),
                         Len(s))

RStrip(s) == IF IsBlank(s) THEN <<>>
             ELSE SubSeq(s, 1, CHOOSE i \in 1..Len(s) :
                                  ~IsSpace(s[i]) /\ \A j \in (i + 1)..Len(s) : IsSpace(s[j]))

Strip(s) == RStrip(LStrip(s))

\* Python slice seq[:n]
Take(s, n) == SubSeq(s, 1, IF n < Len(s) THEN n ELSE Len(s))

Min(a, b) == IF a < b THEN a ELSE b
Max(a, b) == IF a > b THEN a ELSE b

RECURSIVE SumScores(_)
SumScores(s) == IF s = <<>> THEN 0 ELSE Head(s).similarity_score + SumScores(Tail(s))

\* ------------------------------------------------------------ vector index
\* Distances of the stored entries to the query vector, in hundredths.
Distances == {18, 30, 50, 70, 71}

\* Document metadata attached by add_chunks_to_vector_db.  The last record is
\* an entry whose document metadata was skipped (the except branch).
BaseMeta == [page_number |-> 1]
DocInfos == { [education_level |-> "Primary", subject |-> "Mathematics", language |-> "en",
               filename |-> "maths.pdf"],
              [education_level |-> "Primary", subject |-> "Science", language |-> "en",
               filename |-> "science.pdf"],
              [education_level |-> "Secondary", subject |-> "Mathematics", language |-> "sw",
               filename |-> "hisabati.pdf"] }
Metadatas == { d @@ BaseMeta : d \in DocInfos } \cup { BaseMeta }

Entry == [distance : Distances, metadata : Metadatas]

\* The collection as the index ranks it for the query: ascending distance.
IsRanked(c) == \A i \in 1..(Len(c) - 1) : c[i].distance <= c[i + 1].distance
Collections == UNION { { c \in [1..n -> Entry] : IsRanked(c) } : n \in 0..MaxIndex }

\* The stored text of entry i, abstracted to its identity and its length in
\* characters (entry i holds ContentUnit * (i + 1) characters: the first entry
\* is exactly as long as a citation excerpt may be, the others are longer).
ContentUnit == 100
ContentOf(i) == [chunk |-> i, chars |-> ContentUnit * (i + 1)]

\* A `where` document of the index: an equality, a conjunction, or {}.
EqCond(field, value) == [op |-> "$eq", field |-> field, value |-> value]

MatchesCond(metadata, cond) ==
    /\ cond.field \in DOMAIN metadata
    /\ metadata[cond.field] = cond.value

MatchesWhere(metadata, where) ==
    CASE where.op = "$and" -> \A i \in 1..Len(where.conds) : MatchesCond(metadata, where.conds[i])
      [] where.op = "$eq"  -> MatchesCond(metadata, where)
      [] OTHER             -> TRUE

RECURSIVE Ranked(_, _, _)
Ranked(c, i, kwargs) ==
    IF i > Len(c) THEN <<>>
    ELSE IF ~kwargs.has_where \/ MatchesWhere(c[i].metadata, kwargs.where)
         THEN <<[id |-> i, distance |-> c[i].distance, metadata |-> c[i].metadata,
                 document |-> ContentOf(i)]>>
              \o Ranked(c, i + 1, kwargs)
         ELSE Ranked(c, i + 1, kwargs)

\* collection.query(**search_kwargs): the n_results nearest matching entries
CollectionQuery(c, kwargs) == Take(Ranked(c, 1, kwargs), kwargs.n_results)

\* ------------------------------------------- retriever.search_similar_chunks
FilterConditions(education_level, subject, language) ==
    (IF Truthy(education_level) THEN <<EqCond("education_level", education_level)>> ELSE <<>>)
    \o (IF Truthy(subject) THEN <<EqCond("subject", subject)>> ELSE <<>>)
    \o (IF Truthy(language) THEN <<EqCond("language", language)>> ELSE <<>>)

\* mutant: only the first predicate is kept when several are supplied
WhereFilter_FirstOnly(filter_conditions) ==
    IF Len(filter_conditions) >= 1 THEN filter_conditions[1]
    ELSE [op |-> "{}"]

WhereFilter(filter_conditions) ==
    IF Len(filter_conditions) > 1 THEN [op |-> "$and", conds |-> filter_conditions]
    ELSE IF Len(filter_conditions) = 1 THEN filter_conditions[1]
    ELSE [op |-> "{}"]

SearchKwargs(n_results, where_filter) ==
    [n_results |-> Min(n_results, ChromaLimit),
     has_where |-> where_filter.op # "{}",
     where     |-> where_filter]

\* mutant: the similarity threshold is not applied
RECURSIVE ProcessResults_NoThreshold(_, _)
ProcessResults_NoThreshold(results, min_score) ==
    IF results = <<>> THEN <<>>
    ELSE LET r == Head(results)
         IN  <<[chunk_id |-> r.id, content |-> r.document, metadata |-> r.metadata,
                similarity_score |-> One - r.distance, distance |-> r.distance]>>
             \o ProcessResults_NoThreshold(Tail(results), min_score)

RECURSIVE ProcessResults(_, _)
ProcessResults(results, min_score) ==
    IF results = <<>> THEN <<>>
    ELSE LET r == Head(results)
             similarity_score == One - r.distance
         IN  (IF similarity_score >= min_score
              THEN <<[chunk_id |-> r.id, content |-> r.document, metadata |-> r.metadata,
                      similarity_score |-> similarity_score, distance |-> r.distance]>>
              ELSE <<>>)
             \o ProcessResults(Tail(results), min_score)

search_similar_chunks(c, n_results, education_level, subject, language, min_score) ==
    ProcessResults(
        CollectionQuery(c, SearchKwargs(n_results,
                               WhereFilter(FilterConditions(education_level, subject, language)))),
        min_score)

\* ------------------------------------------------------ rag_runner.RAGRunner
\* Text the generation service may return in the "response" field.
GenTexts == { <<" ">>, <<" ", "A", "\n">> }

OllamaOutcomes ==
    { [kind |-> "response", status_code |-> 200, response |-> t, message |-> ""] : t \in GenTexts }
    \cup { [kind |-> "response", status_code |-> 500, response |-> <<>>, message |-> ""],
           [kind |-> "timeout", status_code |-> 0, response |-> <<>>, message |-> ""],
           [kind |-> "exception", status_code |-> 0, response |-> <<>>,
            message |-> "Connection refused"] }

NoEvidenceAnswer ==
    <<"I couldn't find relevant information to answer your question. Please try rephrasing or check if documents for your topic have been uploaded.">>
EmptyResponseAnswer ==
    <<"I apologize, but I couldn't generate a proper response. Please try rephrasing your question.">>
BadStatusAnswer ==
    <<"I'm having trouble connecting to the language model. Please try again later.">>
TimeoutAnswer ==
    <<"The request took too long to process. Please try with a simpler question.">>
OllamaErrorAnswer(e) == <<"I encountered an error while generating the response: ", e>>
ErrorAnswer(e) == <<"Sorry, I encountered an error while processing your question: ", e>>

\* mutant: an empty generated text is returned as it is
call_ollama_NoApology(o) ==
    IF o.kind = "timeout" THEN TimeoutAnswer
    ELSE IF o.kind = "exception" THEN OllamaErrorAnswer(o.message)
    ELSE IF o.status_code = 200 THEN Strip(o.response)
    ELSE BadStatusAnswer

\* _call_ollama: every outcome of the HTTP call is turned into a string
call_ollama(o) ==
    IF o.kind = "timeout" THEN TimeoutAnswer
    ELSE IF o.kind = "exception" THEN OllamaErrorAnswer(o.message)
    ELSE IF o.status_code = 200
         THEN LET answer == Strip(o.response)
              IN  IF answer = <<>> THEN EmptyResponseAnswer ELSE answer
         ELSE BadStatusAnswer

\* time.time() - start_time, in ms: only the generation call takes time
ElapsedMs(o) == IF o.kind = "timeout" THEN OllamaTimeoutMs ELSE 0

ExcerptLen == 200

\* mutant: a content of exactly ExcerptLen characters is cut as well
Excerpt_Inclusive(content) ==
    IF content.chars >= ExcerptLen
    THEN [chunk |-> content.chunk, chars |-> ExcerptLen, ellipsis |-> TRUE]
    ELSE [chunk |-> content.chunk, chars |-> content.chars, ellipsis |-> FALSE]

\* content[:200] + "..." if len(content) > 200 else content: the excerpt is the
\* prefix of `chars` characters of the chunk, with or without the marker
Excerpt(content) ==
    IF content.chars > ExcerptLen
    THEN [chunk |-> content.chunk, chars |-> ExcerptLen, ellipsis |-> TRUE]
    ELSE [chunk |-> content.chunk, chars |-> content.chars, ellipsis |-> FALSE]

\* dict.get(key, default)
Get(d, key, default) == IF key \in DOMAIN d THEN d[key] ELSE default

prepare_citations(chunks) ==
    [i \in 1..Len(chunks) |->
        [id               |-> i,
         filename         |-> Get(chunks[i].metadata, "filename", "Unknown"),
         page             |-> Get(chunks[i].metadata, "page_number", None),
         education_level  |-> Get(chunks[i].metadata, "education_level", None),
         subject          |-> Get(chunks[i].metadata, "subject", None),
         similarity_score |-> chunks[i].similarity_score,
         excerpt          |-> Excerpt(chunks[i].content)]]

\* mutant: the cutoffs are inclusive
Confidence_Inclusive(total, n) ==
    IF total >= HighCutoff * n THEN "high"
    ELSE IF total >= MediumCutoff * n THEN "medium"
    ELSE "low"

\* avg_score > 0.7 / > 0.5 with avg_score = total / n, compared exactly
Confidence(total, n) ==
    IF total > HighCutoff * n THEN "high"
    ELSE IF total > MediumCutoff * n THEN "medium"
    ELSE "low"

\* round(avg_score, 3), in thousandths
AverageSimilarity(total, n) == (2 * 10 * total + n) \div (2 * n)

NoEvidenceResult(query) ==
    [answer             |-> NoEvidenceAnswer,
     sources            |-> <<>>,
     query              |-> query,
     processing_time_ms |-> 0,
     chunks_used        |-> 0,
     confidence         |-> "low"]

AnsweredResult(req, chunks, ans, o) ==
    [answer             |-> ans,
     sources            |-> IF req.include_citations THEN prepare_citations(chunks) ELSE <<>>,
     query              |-> req.query,
     filters            |-> [education_level |-> req.education_level,
                             subject         |-> req.subject,
                             language        |-> req.language],
     processing_time_ms |-> ElapsedMs(o),
     chunks_used        |-> Len(chunks),
     confidence         |-> Confidence(SumScores(chunks), Len(chunks)),
     average_similarity |-> AverageSimilarity(SumScores(chunks), Len(chunks))]

ErrorResult(query, e) ==
    [answer             |-> ErrorAnswer(e),
     sources            |-> <<>>,
     query              |-> query,
     processing_time_ms |-> 0,
     chunks_used        |-> 0,
     confidence         |-> "error",
     error              |-> e]

\* ------------------------------------------------------ main.QueryResponse
RequiredFields == {"answer", "sources", "query", "filters", "processing_time_ms",
                   "chunks_used", "confidence"}
OptionalFields == {"average_similarity"}

\* QueryResponse(**result): a missing required field is a validation error
Validates(res) == RequiredFields \subseteq DOMAIN res

QueryResponse(res) ==
    [f \in RequiredFields \cup (OptionalFields \cap DOMAIN res) |-> res[f]]

\* ------------------------------------------------------ pdf_ingestor.PDFIngestor
\* Characters of a page text.
Chars == {"a", ".", " "}
Texts(n) == UNION { [1..k -> Chars] : k \in 0..n }

\* Longer page texts: one sentence end between two runs of letters.
Repeat(c, n) == [i \in 1..n |-> c]
Sentence(p, q) == Repeat("a", p) \o <<".", " ">> \o Repeat("a", q)
LongTexts == { Sentence(p, q) : p \in 0..MaxPad, q \in 0..MaxPad }

\* chunk sizes of a call: the small ones, and one wide enough for an overlap
\* longer than the shortest chunk the sentence search can cut
WideChunkSize == 2 * MaxChunkSize
ChunkSizes == (1..MaxChunkSize) \cup {WideChunkSize}

\* Page texts of ScenarioPageLen characters for a call with the default
\* parameters: letters, with `lead` blanks in front, `trail` blanks at the end
\* and, when dot > 0, the sentence end ". " at 0-based position dot.
ScenarioText(lead, dot, trail) ==
    [i \in 1..ScenarioPageLen |->
        IF i <= lead \/ i > ScenarioPageLen - trail THEN " "
        ELSE IF dot > 0 /\ i = dot + 1 THEN "."
        ELSE IF dot > 0 /\ i = dot + 2 THEN " "
        ELSE "a"]
ScenarioBlanks == {0, 1, ScenarioPageLen - DefaultChunkSize + DefaultChunkOverlap,
                   DefaultChunkSize, ScenarioPageLen}
ScenarioDots ==
    {0} \cup { m + d : m \in {DefaultChunkSize \div 2, DefaultChunkSize - SearchBack,
                               DefaultChunkSize},
                       d \in (0 - 2)..1 }
ScenarioTexts ==
    { ScenarioText(lead, dot, trail) :
        lead \in ScenarioBlanks, dot \in ScenarioDots, trail \in ScenarioBlanks }

\* Python slice text[a:b]: 0-based, a negative index counts from the end, both
\* indices are clipped to the text
SliceIndex(i, n) == IF i < 0 THEN Max(0, n + i) ELSE Min(i, n)
Slice(text, a, b) == SubSeq(text, SliceIndex(a, Len(text)) + 1, SliceIndex(b, Len(text)))

sentence_endings == << <<".", " ">>, <<"!", " ">>, <<"?", " ">>,
                       <<".", "\n">>, <<"!", "\n">>, <<"?", "\n">> >>

\* the inner `for ending in sentence_endings` loop at position i: the break
\* point after the first ending found there, or best_break unchanged
RECURSIVE EndingAt(_, _, _, _)
EndingAt(text, i, k, best_break) ==
    IF k > Len(sentence_endings) THEN best_break
    ELSE IF Slice(text, i, i + Len(sentence_endings[k])) = sentence_endings[k]
         THEN i + Len(sentence_endings[k])
         ELSE EndingAt(text, i, k + 1, best_break)

\* `for i in range(end, lo, -1)`, entered at i: stops at the first (highest)
\* position that moved best_break away from end
SearchBackwards(text, i, lo, end) ==
    LET moved == { j \in (lo + 1)..i : EndingAt(text, j, 1, end) # end }
    IN  IF moved = {} THEN end
        ELSE EndingAt(text, CHOOSE j \in moved : \A k \in moved : k <= j, 1, end)

\* the end of the chunk that starts at `start`
ChunkEnd(text, start, chunk_size) ==
    LET end == start + chunk_size
    IN  IF end < Len(text)
        THEN SearchBackwards(text, end, Max(start + chunk_size \div 2, end - SearchBack), end)
        ELSE end

\* mutant: a text that fits in one chunk is trimmed like the chunks of the loop
WholeText_Trimmed(text) == IF Strip(text) # <<>> THEN <<Strip(text)>> ELSE <<>>

\* `if len(text) <= chunk_size: return [text]`
WholeText(text) == <<text>>

\* mutant: the overlap is added to the end of the chunk instead of subtracted
NextStart_SignFlipped(start, end, chunk_overlap) == Max(start + 1, end + chunk_overlap)

\* mutant: the cursor moves to end - chunk_overlap without the floor start + 1
NextStart_NoFloor(start, end, chunk_overlap) == end - chunk_overlap

\* `start = max(start + 1, end - chunk_overlap)`
NextStart(start, end, chunk_overlap) == Max(start + 1, end - chunk_overlap)

estimate_token_count(text) == Max(1, Len(text) \div CharsPerToken)

\* mutant: the index written is the position i of enumerate(page_chunks), which
\* restarts at 0 on every page
ChunkDicts_PageLocal(page, page_chunks, chunk_index) ==
    [i \in 1..Len(page_chunks) |->
        [content           |-> page_chunks[i],
         chunk_index       |-> i - 1,
         page_number       |-> page.page_number,
         extraction_method |-> page.extraction_method,
         confidence_score  |-> page.confidence_score,
         character_count   |-> Len(page_chunks[i]),
         token_count       |-> estimate_token_count(page_chunks[i])]]

\* the chunk dictionaries chunk_text appends for one page
RECURSIVE ChunkDicts(_, _, _)
ChunkDicts(page, page_chunks, chunk_index) ==
    IF page_chunks = <<>> THEN <<>>
    ELSE <<[content           |-> Head(page_chunks),
            chunk_index       |-> chunk_index,
            page_number       |-> page.page_number,
            extraction_method |-> page.extraction_method,
            confidence_score  |-> page.confidence_score,
            character_count   |-> Len(Head(page_chunks)),
            token_count       |-> estimate_token_count(Head(page_chunks))]>>
         \o ChunkDicts(page, Tail(page_chunks), chunk_index + 1)

Page(n, text) == [page_number |-> n, content |-> text, extraction_method |-> "text",
                  confidence_score |-> None]

RECURSIVE InputSize(_)
InputSize(ps) == IF ps = <<>> THEN 0 ELSE 1 + Len(Head(ps).content) + InputSize(Tail(ps))

\* the texts the next page of the call may carry: every short text that still
\* fits the input bound, and for the first page the longer texts; a call with
\* the default chunk size has one page of ScenarioPageLen characters
PageTexts(ps, size) ==
    IF size = DefaultChunkSize
    THEN IF ps = <<>> THEN ScenarioTexts ELSE {}
    ELSE Texts(MaxInput - InputSize(ps) - 1) \cup (IF ps = <<>> THEN LongTexts ELSE {})

\* -------------------------------------------------------------------- state
VARIABLES
    collection,          \* the vector index, ranked for the query
    max_context_chunks,  \* RAGRunner.max_context_chunks
    request,             \* the QueryRequest being served
    pc,                  \* position of generate_answer / query_documents
    search_kwargs,       \* the arguments of the last collection.query
    relevant_chunks,     \* generate_answer: relevant_chunks
    selected_chunks,     \* generate_answer: selected_chunks
    gen_outcome,         \* outcome of the HTTP call of _call_ollama
    answer,              \* generate_answer: answer
    exc,                 \* the exception caught by generate_answer
    result,              \* the record generate_answer returned
    states,              \* history: the pipeline states of this call
    calls,               \* history: the capabilities invoked by this call
    http_response,       \* what /query sent back
    pages,               \* chunk_text: the pages iterated so far
    chunk_size,          \* chunk_text: chunk_size
    chunk_overlap,       \* chunk_text: chunk_overlap
    cpc,                 \* position of chunk_text / _split_text_into_chunks
    start,               \* _split_text_into_chunks: start
    page_chunks,         \* _split_text_into_chunks: chunks
    chunks,              \* chunk_text: chunks
    chunk_index,         \* chunk_text: chunk_index
    windows,             \* history: start, end and fate of each loop iteration of the page
    documents,           \* table documents
    chunk_rows,          \* table chunks
    vectors,             \* the entries of the vector index: id and metadata document_id
    files,               \* the files saved under models/
    uploads,             \* the upload_document requests and their positions
    tasks,               \* the background tasks added by upload_document
    starts,              \* history: the documents whose processing was started
    purge,               \* the delete_document request and its position
    writes               \* history: the latest direct call of add_chunks_to_vector_db

qvars == <<collection, max_context_chunks, request, pc, search_kwargs, relevant_chunks,
           selected_chunks, gen_outcome, answer, exc, result, states, calls, http_response>>
cvars == <<pages, chunk_size, chunk_overlap, cpc, start, page_chunks, chunks, chunk_index,
           windows>>
svars == <<documents, chunk_rows, vectors, files, uploads, tasks, starts, purge, writes>>
vars == <<qvars, cvars, svars>>

\* what the query pipeline leaves alone, and what the segmenter leaves alone
OutsideQuery == <<cvars, svars>>
OutsideChunking == <<qvars, svars>>
OutsideStore == <<qvars, cvars>>

Requests ==
    [query            : {"q"},
     education_level  : {None, "Primary"},
     subject          : {None, "Mathematics"},
     language         : {"", "en"},
     include_citations : BOOLEAN]

NoKwargs == [n_results |-> 0, has_where |-> FALSE, where |-> [op |-> "{}"]]
NoOutcome == [kind |-> "none", status_code |-> 0, response |-> <<>>, message |-> ""]
NoResult == [pending |-> TRUE]
NoResponse == [status_code |-> 0]

QueryFresh ==
    /\ request = [query |-> "", education_level |-> None, subject |-> None,
                  language |-> None, include_citations |-> FALSE]
    /\ pc = "idle"
    /\ search_kwargs = NoKwargs
    /\ relevant_chunks = <<>>
    /\ selected_chunks = <<>>
    /\ gen_outcome = NoOutcome
    /\ answer = <<>>
    /\ exc = None
    /\ result = NoResult
    /\ states = <<>>
    /\ calls = <<>>
    /\ http_response = NoResponse

QueryIdle ==
    /\ max_context_chunks = 1
    /\ collection = <<>>
    /\ QueryFresh

ChunkIdle ==
    /\ pages = <<>>
    /\ chunk_size = 1
    /\ chunk_overlap = 0
    /\ cpc = "idle"
    /\ start = 0
    /\ page_chunks = <<>>
    /\ chunks = <<>>
    /\ chunk_index = 0
    /\ windows = <<>>

\* upload requests; a created document takes the number of its request as id
\* (uuid4 in the code), and a file content is named by its SHA-256 digest
Uploads == 1..MaxUploads
Hashes == 1..MaxUploads
NoId == 0

UploadIdle == [pc |-> "idle", file_hash |-> NoId, existing_doc |-> NoId,
               response |-> NoResponse]
PurgeIdle == [pc |-> "idle", document_id |-> NoId, vectors_deleted |-> FALSE,
              response |-> NoResponse, rows_before |-> {}, vectors_before |-> {}]

\* no upload, no deletion, and an empty store
StoreIdle ==
    /\ documents = {}
    /\ chunk_rows = {}
    /\ vectors = {}
    /\ files = {}
    /\ uploads = [r \in Uploads |-> UploadIdle]
    /\ tasks = [d \in Uploads |-> "none"]
    /\ starts = <<>>
    /\ purge = PurgeIdle
    /\ writes = <<>>

Init ==
    /\ collection \in Collections
    /\ max_context_chunks \in {1, MaxContextChunks}
    /\ QueryFresh
    /\ ChunkIdle
    /\ StoreIdle

\* query_documents is entered and calls generate_answer (start of the try)
StartQuery ==
    /\ pc = "idle"
    /\ \E r \in Requests : request' = r
    /\ pc' = "RETRIEVING"
    /\ states' = Append(states, "RETRIEVING")
    /\ UNCHANGED <<collection, max_context_chunks, search_kwargs, relevant_chunks,
                   selected_chunks, gen_outcome, answer, exc, result, calls, http_response>>
    /\ UNCHANGED OutsideQuery

\* mutant: an embedding or index failure is swallowed and retrieval returns
\* an empty list
Retrieve_SwallowsFailure ==
    /\ pc = "RETRIEVING"
    /\ calls' = Append(calls, "retrieve")
    /\ \E outcome \in {"ok", "embedding model failed", "vector index failed"} :
         /\ search_kwargs' =
               SearchKwargs(max_context_chunks * OverFetch,
                            WhereFilter(FilterConditions(request.education_level,
                                                         request.subject, request.language)))
         /\ relevant_chunks' =
               IF outcome = "ok"
               THEN search_similar_chunks(collection, max_context_chunks * OverFetch,
                                          request.education_level, request.subject,
                                          request.language, MinScore)
               ELSE <<>>
         /\ exc' = IF outcome = "ok" THEN exc ELSE outcome
         /\ pc' = "RETRIEVED"
    /\ UNCHANGED <<collection, max_context_chunks, request, selected_chunks, gen_outcome,
                   answer, result, states, http_response>>
    /\ UNCHANGED OutsideQuery

\* Step 1: search_similar_chunks; an embedding or index failure is re-raised
Retrieve ==
    /\ pc = "RETRIEVING"
    /\ calls' = Append(calls, "retrieve")
    /\ \E outcome \in {"ok", "embedding model failed", "vector index failed"} :
         IF outcome = "ok"
         THEN /\ search_kwargs' =
                    SearchKwargs(max_context_chunks * OverFetch,
                                 WhereFilter(FilterConditions(request.education_level,
                                                              request.subject, request.language)))
              /\ relevant_chunks' =
                    search_similar_chunks(collection, max_context_chunks * OverFetch,
                                          request.education_level, request.subject,
                                          request.language, MinScore)
              /\ pc' = "RETRIEVED"
              /\ exc' = exc
         ELSE /\ exc' = outcome
              /\ pc' = "EXCEPT"
              /\ UNCHANGED <<search_kwargs, relevant_chunks>>
    /\ UNCHANGED <<collection, max_context_chunks, request, selected_chunks, gen_outcome,
                   answer, result, states, http_response>>
    /\ UNCHANGED OutsideQuery

\* mutant: the early return is missing and the call goes on to generation
ReturnNoEvidence_FallsThrough ==
    /\ pc = "RETRIEVED"
    /\ relevant_chunks = <<>>
    /\ states' = Append(states, "BUILDING_CONTEXT")
    /\ pc' = "GENERATING"
    /\ UNCHANGED <<collection, max_context_chunks, request, search_kwargs, relevant_chunks,
                   selected_chunks, gen_outcome, answer, exc, result, calls, http_response>>
    /\ UNCHANGED OutsideQuery

\* `if not relevant_chunks: return {...}`
ReturnNoEvidence ==
    /\ pc = "RETRIEVED"
    /\ relevant_chunks = <<>>
    /\ result' = NoEvidenceResult(request.query)
    /\ states' = Append(states, "NO_EVIDENCE")
    /\ pc' = "returned"
    /\ UNCHANGED <<collection, max_context_chunks, request, search_kwargs, relevant_chunks,
                   selected_chunks, gen_outcome, answer, exc, calls, http_response>>
    /\ UNCHANGED OutsideQuery

\* mutant: every relevant chunk is selected, the [:max_context_chunks] is missing
BuildContext_NoTruncation ==
    /\ pc = "RETRIEVED"
    /\ relevant_chunks # <<>>
    /\ selected_chunks' = relevant_chunks
    /\ states' = Append(states, "BUILDING_CONTEXT")
    /\ pc' = "GENERATING"
    /\ UNCHANGED <<collection, max_context_chunks, request, search_kwargs, relevant_chunks,
                   gen_outcome, answer, exc, result, calls, http_response>>
    /\ UNCHANGED OutsideQuery

\* Steps 2 and 3: select the best chunks, build context and prompt
BuildContext ==
    /\ pc = "RETRIEVED"
    /\ relevant_chunks # <<>>
    /\ selected_chunks' = Take(relevant_chunks, max_context_chunks)
    /\ states' = Append(states, "BUILDING_CONTEXT")
    /\ pc' = "GENERATING"
    /\ UNCHANGED <<collection, max_context_chunks, request, search_kwargs, relevant_chunks,
                   gen_outcome, answer, exc, result, calls, http_response>>
    /\ UNCHANGED OutsideQuery

\* Step 4: _call_ollama
CallOllama ==
    /\ pc = "GENERATING"
    /\ \E o \in OllamaOutcomes :
         /\ gen_outcome' = o
         /\ answer' = call_ollama(o)
    /\ calls' = Append(calls, "generate")
    /\ states' = Append(states, "GENERATING")
    /\ pc' = "GENERATED"
    /\ UNCHANGED <<collection, max_context_chunks, request, search_kwargs, relevant_chunks,
                   selected_chunks, exc, result, http_response>>
    /\ UNCHANGED OutsideQuery

\* Step 5 to the return of the result record
ReturnAnswered ==
    /\ pc = "GENERATED"
    /\ result' = AnsweredResult(request, selected_chunks, answer, gen_outcome)
    /\ states' = Append(states, "ANSWERED")
    /\ pc' = "returned"
    /\ UNCHANGED <<collection, max_context_chunks, request, search_kwargs, relevant_chunks,
                   selected_chunks, gen_outcome, answer, exc, calls, http_response>>
    /\ UNCHANGED OutsideQuery

\* `except Exception as e: return {...}`
ReturnError ==
    /\ pc = "EXCEPT"
    /\ result' = ErrorResult(request.query, exc)
    /\ states' = Append(states, "GENERATION_FAILED")
    /\ pc' = "returned"
    /\ UNCHANGED <<collection, max_context_chunks, request, search_kwargs, relevant_chunks,
                   selected_chunks, gen_outcome, answer, exc, calls, http_response>>
    /\ UNCHANGED OutsideQuery

\* query_documents: `return QueryResponse(**result)` inside try/except
Respond ==
    /\ pc = "returned"
    /\ http_response' =
         IF Validates(result)
         THEN [status_code |-> 200, body |-> QueryResponse(result)]
         ELSE [status_code |-> 500, detail |-> "Error processing query: validation error"]
    /\ pc' = "responded"
    /\ UNCHANGED <<collection, max_context_chunks, request, search_kwargs, relevant_chunks,
                   selected_chunks, gen_outcome, answer, exc, result, states, calls>>
    /\ UNCHANGED OutsideQuery

Next ==
    \/ StartQuery
    \/ Retrieve
    \/ ReturnNoEvidence
    \/ BuildContext
    \/ CallOllama
    \/ ReturnAnswered
    \/ ReturnError
    \/ Respond

Spec == Init /\ [][Next]_vars

\* ---------------------------------------------------------------- chunk_text
\* chunk_text is called with well-formed parameters
ChunkInit ==
    /\ QueryIdle
    /\ StoreIdle
    /\ pages = <<>>
    /\ chunk_size \in ChunkSizes
    /\ chunk_overlap \in 0..(chunk_size - 1)
    /\ cpc = "page"
    /\ start = 0
    /\ page_chunks = <<>>
    /\ chunks = <<>>
    /\ chunk_index = 0
    /\ windows = <<>>

\* chunk_text is called with its default parameters (main.py passes the same
\* values when CHUNK_SIZE and CHUNK_OVERLAP are not set)
ScenarioInit ==
    /\ QueryIdle
    /\ StoreIdle
    /\ pages = <<>>
    /\ chunk_size = DefaultChunkSize
    /\ chunk_overlap = DefaultChunkOverlap
    /\ cpc = "page"
    /\ start = 0
    /\ page_chunks = <<>>
    /\ chunks = <<>>
    /\ chunk_index = 0
    /\ windows = <<>>

\* the parameters the spec calls malformed
Malformed(size, overlap) == size <= 0 \/ overlap < 0 \/ overlap >= size

\* chunk_text is called with malformed parameters
MalformedInit ==
    /\ QueryIdle
    /\ StoreIdle
    /\ pages = <<>>
    /\ chunk_size \in (-1)..MaxMalformed
    /\ chunk_overlap \in (-1)..MaxMalformed
    /\ Malformed(chunk_size, chunk_overlap)
    /\ cpc = "page"
    /\ start = 0
    /\ page_chunks = <<>>
    /\ chunks = <<>>
    /\ chunk_index = 0
    /\ windows = <<>>

\* `for page in pages`: the next page; an empty page is skipped, a page that
\* fits in one chunk is returned whole
NextPage ==
    /\ cpc = "page"
    /\ \E text \in PageTexts(pages, chunk_size) :
         /\ pages' = Append(pages, Page(Len(pages) + 1, text))
         /\ IF text = <<>>
            THEN /\ cpc' = "page"
                 /\ UNCHANGED <<start, page_chunks, windows>>
            ELSE IF Len(text) <= chunk_size
            THEN /\ cpc' = "emit"
                 /\ page_chunks' = WholeText(text)
                 /\ start' = start
                 /\ windows' = <<>>
            ELSE /\ cpc' = "loop"
                 /\ page_chunks' = <<>>
                 /\ start' = 0
                 /\ windows' = <<>>
    /\ UNCHANGED <<chunk_size, chunk_overlap, chunks, chunk_index>>
    /\ UNCHANGED OutsideChunking

\* one iteration of `while start < len(text)`
SplitStep ==
    /\ cpc = "loop"
    /\ LET text == pages[Len(pages)].content
           end == ChunkEnd(text, start, chunk_size)
           chunk == Strip(Slice(text, start, end))
       IN  /\ start < Len(text)
           /\ page_chunks' = IF chunk # <<>> THEN Append(page_chunks, chunk) ELSE page_chunks
           /\ start' = NextStart(start, end, chunk_overlap)
           /\ windows' = Append(windows, [start |-> start, end |-> end, kept |-> chunk # <<>>])
           /\ cpc' = IF start' >= Len(text) THEN "emit" ELSE "loop"
    /\ UNCHANGED <<pages, chunk_size, chunk_overlap, chunks, chunk_index>>
    /\ UNCHANGED OutsideChunking

\* `for i, chunk_text in enumerate(page_chunks)`: the page's chunks are appended
EmitPageChunks ==
    /\ cpc = "emit"
    /\ chunks' = chunks \o ChunkDicts(pages[Len(pages)], page_chunks, chunk_index)
    /\ chunk_index' = chunk_index + Len(page_chunks)
    /\ cpc' = "page"
    /\ UNCHANGED <<pages, chunk_size, chunk_overlap, start, page_chunks, windows>>
    /\ UNCHANGED OutsideChunking

\* the page list is exhausted: `return chunks`
ChunkTextReturn ==
    /\ cpc = "page"
    /\ cpc' = "done"
    /\ UNCHANGED <<pages, chunk_size, chunk_overlap, start, page_chunks, chunks, chunk_index,
                   windows>>
    /\ UNCHANGED OutsideChunking

ChunkNext ==
    \/ NextPage
    \/ SplitStep
    \/ EmitPageChunks
    \/ ChunkTextReturn

SpecChunk == ChunkInit /\ [][ChunkNext]_vars
SpecScenario == ScenarioInit /\ [][ChunkNext]_vars
SpecMalformed == MalformedInit /\ [][ChunkNext]_vars

\* ------------------------------------------------------- main.upload_document
\* DocumentCRUD.get_by_hash: the document with this file_hash, or None
ByHash(docs, h) == { d \in docs : d.file_hash = h }
get_by_hash(docs, h) == IF ByHash(docs, h) = {} THEN NoId ELSE (CHOOSE d \in ByHash(docs, h) : TRUE).id

\* mutant: the column file_hash carries no unique constraint
HashTaken_NoConstraint(docs, h) == FALSE

\* `file_hash = Column(String(64), nullable=False, unique=True)`: an insert of
\* a second row with the same file_hash fails at commit
HashTaken(docs, h) == ByHash(docs, h) # {}

\* the education level named by every upload, as EducationLevelCRUD.get_by_name
\* returns it, and the other form fields
EducationLevelRow == [id |-> 1, name |-> "Primary"]
UploadSubject == "Mathematics"
UploadLanguage == "en"

\* DocumentCRUD.create(...) of upload_document: the row of upload r, stored
\* under file name r, with the column defaults of the table
NewDocument(r, h) ==
    [id |-> r, file_hash |-> h, file_path |-> r, filename |-> r,
     education_level_id |-> EducationLevelRow.id, subject |-> UploadSubject,
     language |-> UploadLanguage, processing_status |-> "pending", total_chunks |-> 0]

UploadResponse(id, status) == [status_code |-> 200, document_id |-> id, status |-> status]
HttpError(code) == [status_code |-> code]

\* the file type, education level or size check fails: HTTPException(400)
UploadReject ==
    \E r \in Uploads :
        /\ uploads[r].pc = "idle"
        /\ uploads' = [uploads EXCEPT ![r].pc = "done", ![r].response = HttpError(400)]
        /\ UNCHANGED <<documents, chunk_rows, vectors, files, tasks, starts, purge>>
        /\ UNCHANGED <<OutsideStore, writes>>

\* the content is read and hashed and looked up: an existing document is
\* returned with status "exists"
UploadLookup ==
    \E r \in Uploads, h \in Hashes :
        /\ uploads[r].pc = "idle"
        /\ LET existing_doc == get_by_hash(documents, h)
           IN  uploads' = [uploads EXCEPT
                   ![r].file_hash = h,
                   ![r].existing_doc = existing_doc,
                   ![r].pc = IF existing_doc # NoId THEN "done" ELSE "create",
                   ![r].response = IF existing_doc # NoId
                                   THEN UploadResponse(existing_doc, "exists")
                                   ELSE NoResponse]
        /\ UNCHANGED <<documents, chunk_rows, vectors, files, tasks, starts, purge>>
        /\ UNCHANGED <<OutsideStore, writes>>

\* the file is saved, the Document row is inserted with status "pending" and
\* the background task is added; a failed insert ends in HTTPException(500)
UploadCreate ==
    \E r \in Uploads :
        /\ uploads[r].pc = "create"
        /\ files' = files \cup {r}
        /\ IF HashTaken(documents, uploads[r].file_hash)
           THEN /\ uploads' = [uploads EXCEPT ![r].pc = "done", ![r].response = HttpError(500)]
                /\ UNCHANGED <<documents, tasks>>
           ELSE /\ documents' = documents \cup {NewDocument(r, uploads[r].file_hash)}
                /\ tasks' = [tasks EXCEPT ![r] = "queued"]
                /\ uploads' = [uploads EXCEPT ![r].pc = "done",
                                              ![r].response = UploadResponse(r, "uploaded")]
        /\ UNCHANGED <<chunk_rows, vectors, starts, purge>>
        /\ UNCHANGED <<OutsideStore, writes>>

\* `total_chunks: Optional[int] = None`
NoTotal == 0 - 1

\* DocumentCRUD.update_processing_status: nothing happens without the row, and
\* total_chunks is written only when it is given
update_processing_status(docs, id, status, total_chunks) ==
    { IF d.id = id
      THEN [d EXCEPT !.processing_status = status,
                     !.total_chunks = IF total_chunks # NoTotal THEN total_chunks ELSE @]
      ELSE d : d \in docs }

\* ChunkCRUD.create for the first n chunks of the file with content h, made for
\* document id: each row gets an id of its own (uuid4), here <<id, k>>
RowsOf(id, h, n) ==
    { [id |-> <<id, k>>, document_id |-> id, chunk_index |-> k - 1, content |-> <<h, k>>]
      : k \in 1..n }

\* extract_text_from_pdf and chunk_text are functions of the file: the number
\* of chunks in the file with content h (a few, one more than a batch, or none)
BatchSize == 100
ChunksIn(h) ==
    CASE h = 1 -> MaxDocChunks
      [] h = 2 -> BatchSize + 1
      [] OTHER -> h - 3

\* for i in range(0, len(chunks), batch_size): the batch of the chunk at a
\* position of the list, and the number of batches
BatchOf(position) == (position - 1) \div BatchSize + 1
NumBatches(n) == (n + BatchSize - 1) \div BatchSize
Position(chunk, chunk_objects) == Cardinality({ c \in chunk_objects : c.chunk_index <= chunk.chunk_index })

\* the metadata of one entry: the document fields are added when the document
\* of the chunk could be loaded; education_level is then chunk.document's
\* relationship attribute, the EducationLevel row and not its name
ChunkMetadata(chunk, docs, loaded) ==
    LET base == [chunk_id |-> chunk.id, document_id |-> chunk.document_id,
                 chunk_index |-> chunk.chunk_index]
        owner == { d \in docs : d.id = chunk.document_id }
    IN  IF loaded /\ owner # {}
        THEN LET document == CHOOSE d \in owner : TRUE
             IN  [education_level |-> "<EducationLevel>", subject |-> document.subject,
                  language |-> document.language, filename |-> document.filename] @@ base
        ELSE base

VectorEntry(chunk, docs, loaded) ==
    [id |-> chunk.id, document_id |-> chunk.document_id, content |-> chunk.content,
     metadata |-> ChunkMetadata(chunk, docs, loaded)]

\* mutant: an id that is already stored is rejected and nothing is written
CollectionAdd_RejectsStoredId(index, entries) ==
    IF \E e \in entries, x \in index : x.id = e.id
    THEN [index |-> index, raised |-> TRUE]
    ELSE [index |-> index \cup entries, raised |-> FALSE]

\* collection.add(ids=..., ...) of a persistent collection: the index holds one
\* entry per id, and an entry whose id is already stored is left out silently
CollectionAdd(index, entries) ==
    [index |-> index \cup { e \in entries : \A x \in index : x.id # e.id },
     raised |-> FALSE]

\* add_chunks_to_vector_db: the batches before batch `failing` are written
\* (failing = 0: the embedding model and the index never raise)
add_chunks_to_vector_db(index, chunk_objects, docs, loaded, failing) ==
    LET reached == { c \in chunk_objects : failing = 0 \/ BatchOf(Position(c, chunk_objects)) < failing }
        added == CollectionAdd(index, { VectorEntry(c, docs, loaded) : c \in reached })
    IN  [index |-> added.index, raised |-> failing # 0 \/ added.raised]

\* _process_document_background begins: status "processing"
ProcessStart ==
    \E d \in Uploads :
        /\ tasks[d] = "queued"
        /\ documents' = update_processing_status(documents, d, "processing", NoTotal)
        /\ tasks' = [tasks EXCEPT ![d] = "running"]
        /\ starts' = Append(starts, d)
        /\ UNCHANGED <<chunk_rows, vectors, files, uploads, purge>>
        /\ UNCHANGED <<OutsideStore, writes>>

\* the ways the rest of _process_document_background can go for a file of n
\* chunks: the step that raised (if any), the Chunk rows committed before it,
\* the batch in which the embedding model or the index raised, whether the
\* documents of the chunks could be loaded for the metadata, and whether the
\* status update of the except branch went through (it uses the session of a
\* database step that has just failed)
Steps == {"none", "extraction", "chunk persistence", "index write", "vector metadata"}
Runs(n) ==
    { run \in [step : Steps, persisted : {0, n - 1, n}, failing : 0..NumBatches(n),
               loaded : BOOLEAN, handler_ok : BOOLEAN] :
        CASE run.step = "extraction" ->
                 run.persisted = 0 /\ run.failing = 0 /\ ~run.loaded /\ run.handler_ok
          [] run.step = "chunk persistence" ->
                 /\ run.persisted >= 0 /\ run.persisted < n
                 /\ run.failing = 0 /\ ~run.loaded
          [] run.step = "index write" ->
                 n >= 1 /\ run.persisted = n /\ run.failing >= 1 /\ run.handler_ok
          [] run.step = "vector metadata" ->
                 n >= 1 /\ run.persisted = n /\ run.failing = 0
          [] OTHER ->
                 /\ run.persisted = n /\ run.failing = 0 /\ run.handler_ok
                 /\ n = 0 => ~run.loaded }

\* the rest of _process_document_background: extraction and segmentation, the
\* Chunk rows, the index write, the vector ids of the rows, and status
\* "completed" with total_chunks; an exception on the way leaves what was
\* committed and written, and the except branch sets status "failed"
ProcessFinish ==
    \E d \in Uploads :
      \E run \in Runs(ChunksIn(uploads[d].file_hash)) :
        /\ tasks[d] = "running"
        /\ LET rows == RowsOf(d, uploads[d].file_hash, run.persisted)
               indexing == run.step \in {"none", "index write", "vector metadata"}
               written == IF indexing
                          THEN add_chunks_to_vector_db(vectors, rows, documents, run.loaded,
                                                       run.failing)
                          ELSE [index |-> vectors, raised |-> FALSE]
               failed == run.step # "none" \/ written.raised
           IN  /\ chunk_rows' = chunk_rows \cup rows
               /\ vectors' = written.index
               /\ documents' =
                    IF ~failed
                    THEN update_processing_status(documents, d, "completed",
                                                  ChunksIn(uploads[d].file_hash))
                    ELSE IF run.handler_ok
                    THEN update_processing_status(documents, d, "failed", NoTotal)
                    ELSE documents
        /\ tasks' = [tasks EXCEPT ![d] = "finished"]
        /\ UNCHANGED <<files, uploads, starts, purge>>
        /\ UNCHANGED <<OutsideStore, writes>>

UploadNext ==
    \/ UploadReject
    \/ UploadLookup
    \/ UploadCreate
    \/ ProcessStart
    \/ ProcessFinish

\* a fresh service with an empty store
UploadInit ==
    /\ QueryIdle
    /\ ChunkIdle
    /\ StoreIdle

SpecUpload == UploadInit /\ [][UploadNext]_vars

\* ------------------------------------------------------- main.delete_document
get_by_id(docs, id) == { d \in docs : d.id = id }
OfDocument(entries, id) == { e \in entries : e.document_id = id }

\* delete_document is entered: a malformed id ends in 400, an unknown id in 404
DeleteStart ==
    /\ purge.pc \in {"idle", "done"}
    /\ \E well_formed \in BOOLEAN, id \in Uploads :
         purge' = IF ~well_formed THEN [PurgeIdle EXCEPT !.pc = "done", !.response = HttpError(400)]
                  ELSE IF get_by_id(documents, id) = {}
                  THEN [PurgeIdle EXCEPT !.pc = "done", !.document_id = id,
                                         !.response = HttpError(404)]
                  ELSE [PurgeIdle EXCEPT !.pc = "vectors", !.document_id = id,
                                         !.rows_before = chunk_rows,
                                         !.vectors_before = vectors]
    /\ UNCHANGED <<documents, chunk_rows, vectors, files, uploads, tasks, starts>>
    /\ UNCHANGED <<OutsideStore, writes>>

\* embedding_retriever.delete_document_chunks: True after the entries of the
\* document are deleted, False when the index raised; the handler ignores it
DeleteVectors ==
    /\ purge.pc = "vectors"
    /\ \E index_ok \in BOOLEAN :
         /\ vectors' = IF index_ok THEN vectors \ OfDocument(vectors, purge.document_id)
                        ELSE vectors
         /\ purge' = [purge EXCEPT !.pc = "file", !.vectors_deleted = index_ok]
    /\ UNCHANGED <<documents, chunk_rows, files, uploads, tasks, starts>>
    /\ UNCHANGED <<OutsideStore, writes>>

\* the file is unlinked; a failure is logged and ignored
DeleteFile ==
    /\ purge.pc = "file"
    /\ \E unlink_ok \in BOOLEAN :
         files' = IF unlink_ok
                  THEN files \ { d.file_path : d \in get_by_id(documents, purge.document_id) }
                  ELSE files
    /\ purge' = [purge EXCEPT !.pc = "record"]
    /\ UNCHANGED <<documents, chunk_rows, vectors, uploads, tasks, starts>>
    /\ UNCHANGED <<OutsideStore, writes>>

\* DocumentCRUD.delete (the Chunk rows go with the row, cascade) and the
\* success message; a database failure ends in 500
DeleteRecord ==
    /\ purge.pc = "record"
    /\ \E db_ok \in BOOLEAN :
         IF db_ok
         THEN /\ documents' = documents \ get_by_id(documents, purge.document_id)
              /\ chunk_rows' = chunk_rows \ OfDocument(chunk_rows, purge.document_id)
              /\ purge' = [purge EXCEPT !.pc = "done",
                                        !.response = [status_code |-> 200,
                                                      message |-> "Document deleted successfully"]]
         ELSE /\ purge' = [purge EXCEPT !.pc = "done", !.response = HttpError(500)]
              /\ UNCHANGED <<documents, chunk_rows>>
    /\ UNCHANGED <<vectors, files, uploads, tasks, starts>>
    /\ UNCHANGED <<OutsideStore, writes>>

PurgeNext ==
    \/ DeleteStart
    \/ DeleteVectors
    \/ DeleteFile
    \/ DeleteRecord

\* a store after ingestion: every document is completed or failed, a completed
\* one has its chunk rows mirrored in the index, a failed one has rows only
Ingested(n, failed) ==
    /\ documents = { [NewDocument(d, d) EXCEPT
                          !.processing_status = IF d \in failed THEN "failed" ELSE "completed",
                          !.total_chunks = IF d \in failed THEN 0 ELSE n[d]]
                    : d \in Uploads }
    /\ chunk_rows = UNION { RowsOf(d, d, n[d]) : d \in Uploads }
    /\ vectors = { VectorEntry(c, documents, TRUE)
                   : c \in UNION { RowsOf(d, d, n[d]) : d \in Uploads \ failed } }
    /\ files = Uploads
    /\ uploads = [r \in Uploads |-> [UploadIdle EXCEPT !.pc = "done", !.file_hash = r,
                                                       !.response = UploadResponse(r, "uploaded")]]
    /\ tasks = [d \in Uploads |-> "finished"]
    /\ starts \in { q \in [1..MaxUploads -> Uploads] : \A d \in Uploads : \E i \in 1..MaxUploads : q[i] = d }

PurgeInit ==
    /\ QueryIdle
    /\ ChunkIdle
    /\ \E n \in [Uploads -> 1..MaxDocChunks], failed \in SUBSET Uploads : Ingested(n, failed)
    /\ purge = PurgeIdle
    /\ writes = <<>>

SpecPurge == PurgeInit /\ [][PurgeNext]_vars

\* ------------------------------------------ uploads and deletions together
\* the store after the first upload (content 1) was ingested, the other
\* uploads still to come
FirstIngested ==
    /\ documents = { [NewDocument(1, 1) EXCEPT !.processing_status = "completed",
                                                !.total_chunks = ChunksIn(1)] }
    /\ chunk_rows = RowsOf(1, 1, ChunksIn(1))
    /\ vectors = { VectorEntry(c, documents, TRUE) : c \in RowsOf(1, 1, ChunksIn(1)) }
    /\ files = {1}
    /\ uploads = [r \in Uploads |->
                    IF r = 1
                    THEN [UploadIdle EXCEPT !.pc = "done", !.file_hash = 1,
                                            !.response = UploadResponse(1, "uploaded")]
                    ELSE UploadIdle]
    /\ tasks = [d \in Uploads |-> IF d = 1 THEN "finished" ELSE "none"]
    /\ starts = <<1>>

ReingestInit ==
    /\ QueryIdle
    /\ ChunkIdle
    /\ FirstIngested
    /\ purge = PurgeIdle
    /\ writes = <<>>

\* the service then takes the other uploads and one deletion request, in any
\* order
ReingestNext ==
    \/ UploadNext
    \/ (purge.pc # "done" /\ PurgeNext)

SpecReingest == ReingestInit /\ [][ReingestNext]_vars

\* --------------------------------------- retriever.add_chunks_to_vector_db
\* add_chunks_to_vector_db is called with Chunk rows of one document, whether
\* or not they are in the index already, and their document loads;
\* `if not chunks: return []`
IndexWrite ==
    /\ \E d \in Uploads, failing \in 0..1 :
         \E chunk_objects \in SUBSET OfDocument(chunk_rows, d) :
            /\ chunk_objects = {} => failing = 0
            /\ LET written == add_chunks_to_vector_db(vectors, chunk_objects, documents, TRUE,
                                                      failing)
               IN  /\ vectors' = written.index
                   /\ writes' = <<[chunks |-> chunk_objects, before |-> vectors,
                                 failing |-> failing, raised |-> written.raised]>>
    /\ UNCHANGED <<documents, chunk_rows, files, uploads, tasks, starts, purge>>
    /\ UNCHANGED OutsideStore

IndexWriteNext == IndexWrite

\* a store after ingestion in upload order, every document with MaxDocChunks
\* Chunk rows: those of a completed document are in the index, those of a
\* failed one are not
IndexWriteInit ==
    /\ QueryIdle
    /\ ChunkIdle
    /\ \E failed \in SUBSET Uploads : Ingested([d \in Uploads |-> MaxDocChunks], failed)
    /\ starts = [i \in 1..MaxUploads |-> i]
    /\ purge = PurgeIdle
    /\ writes = <<>>

SpecIndexWrite == IndexWriteInit /\ [][IndexWriteNext]_vars

\* ===================================================================== claims
Returned == pc \in {"returned", "responded"}
Answered == Returned /\ states[Len(states)] = "ANSWERED"
RetrievalCompleted == calls # <<>> /\ exc = None
GenerationFailed == gen_outcome.kind \in {"timeout", "exception"}

\* what the index returned for the query of this call
IndexResults == CollectionQuery(collection, search_kwargs)
AboveThreshold(r) == One - r.distance >= MinScore
Surviving == SelectSeq(IndexResults, AboveThreshold)

ErrorMarkers == { TimeoutAnswer[1], OllamaErrorAnswer("")[1], ErrorAnswer("")[1],
                  BadStatusAnswer[1], EmptyResponseAnswer[1] }

\* C1 (as claimed): when retrieval returned at least one chunk and the
\* generation call timed out or failed at transport level, the returned record
\* has confidence "error", chunks_used 0 and an answer carrying an error marker.
C1_GenerationFailureGivesErrorRecord ==
    (Returned /\ relevant_chunks # <<>> /\ GenerationFailed)
        => /\ result.confidence = "error"
           /\ result.chunks_used = 0
           /\ result.answer # <<>>
           /\ result.answer[1] \in ErrorMarkers

\* C2: generate_answer never raises and always ends with a record whose answer
\* is a non-empty string, whatever the embedding call, the index query and the
\* generation call did: control never leaves the call by an exception, the
\* branch after retrieval and the except clause always have a continuation,
\* and every returned record carries a non-empty answer.
C2_AlwaysDisplayableAnswer ==
    /\ pc \in {"idle", "RETRIEVING", "RETRIEVED", "GENERATING", "GENERATED", "EXCEPT",
               "returned", "responded"}
    /\ pc = "RETRIEVED" => ENABLED (ReturnNoEvidence \/ BuildContext)
    /\ pc = "EXCEPT" => exc # None /\ ENABLED ReturnError
    /\ Returned => /\ "answer" \in DOMAIN result
                   /\ Len(result.answer) >= 1
                   /\ \A i \in 1..Len(result.answer) : result.answer[i] # ""

\* C2 witness: the generation service answered 200 with only whitespace and the
\* record still carries the fixed apology.
C2_Witness ==
    /\ Returned
    /\ gen_outcome.kind = "response" /\ gen_outcome.status_code = 200
    /\ gen_outcome.response # <<>> /\ Strip(gen_outcome.response) = <<>>
    /\ result.answer = EmptyResponseAnswer

\* C3: when retrieval completes with no result at or above the 0.3 threshold,
\* the record has chunks_used 0, confidence "low", no sources and the fixed
\* non-empty "no relevant information" answer, and nothing was raised.
C3_NoEvidenceRecord ==
    (Returned /\ RetrievalCompleted /\ Surviving = <<>>)
        => /\ result.chunks_used = 0
           /\ result.confidence = "low"
           /\ result.sources = <<>>
           /\ result.answer = NoEvidenceAnswer
           /\ result.answer # <<>>
           /\ "error" \notin DOMAIN result

\* C3 witness: the index returned neighbours, all of them below the threshold.
C3_Witness ==
    /\ Returned /\ RetrievalCompleted
    /\ IndexResults # <<>> /\ Surviving = <<>>
    /\ result.confidence = "low" /\ result.chunks_used = 0

\* C4 (as claimed): the no-evidence record and the failure record reach the
\* caller of /query as a successful response carrying that record, never as an
\* error response.
C4_NoEvidenceIsNormalResponse ==
    (pc = "responded"
        /\ result.chunks_used = 0 /\ result.confidence \in {"low", "error"})
        => /\ http_response.status_code = 200
           /\ http_response.body.answer = result.answer
           /\ http_response.body.confidence = result.confidence

\* C5 (as claimed): every return path of generate_answer yields a record with
\* the fields answer, sources, query, filters, processing_time_ms, chunks_used
\* and confidence.
C5_UniformResultRecord ==
    Returned => {"answer", "sources", "query", "filters", "processing_time_ms",
                 "chunks_used", "confidence"} \subseteq DOMAIN result

\* C6: retrieval is invoked exactly once and before anything else; generation
\* is invoked at most once, only after retrieval returned at least one result
\* and never on the NO_EVIDENCE path; every call ends in exactly one terminal
\* state, reached along RETRIEVING -> (NO_EVIDENCE | BUILDING_CONTEXT) ->
\* GENERATING -> ANSWERED, or from a raised exception.
TerminalStates == {"NO_EVIDENCE", "ANSWERED", "GENERATION_FAILED"}
TerminalCount == Cardinality({ i \in 1..Len(states) : states[i] \in TerminalStates })

C7_EvidenceSet ==
    (pc \in {"GENERATING", "GENERATED"} \/ Answered)
        => LET surviving == Surviving
               n == Len(selected_chunks)
           IN  /\ n = Min(Len(surviving), max_context_chunks)
               /\ n <= max_context_chunks
               /\ \A i \in 1..n :
                    /\ selected_chunks[i].chunk_id = surviving[i].id
                    /\ selected_chunks[i].similarity_score = One - surviving[i].distance
                    /\ selected_chunks[i].similarity_score >= MinScore
               /\ \A i \in 1..(n - 1) :
                    selected_chunks[i].chunk_id < selected_chunks[i + 1].chunk_id
               /\ Answered => result.chunks_used = n

\* C7 witness: more results survived the threshold than max_context_chunks, and
\* the answer used only the first of them.
C7_Witness ==
    /\ Answered
    /\ Len(Surviving) > max_context_chunks
    /\ result.chunks_used = max_context_chunks

\* C8: every result of search_similar_chunks has metadata equal to each
\* supplied education_level / subject / language value (a conjunction); with
\* no value supplied the filter argument is omitted and the search is
\* unfiltered.
FilterFields == {"education_level", "subject", "language"}
Supplied == { f \in FilterFields : Truthy(request[f]) }
UnfilteredCount ==
    Cardinality({ i \in 1..Min(Len(collection), search_kwargs.n_results) :
                    One - collection[i].distance >= MinScore })

C8_FiltersAreConjunction ==
    (pc # "idle" /\ pc # "RETRIEVING" /\ RetrievalCompleted)
        => /\ \A i \in 1..Len(relevant_chunks) : \A f \in Supplied :
                /\ f \in DOMAIN relevant_chunks[i].metadata
                /\ relevant_chunks[i].metadata[f] = request[f]
           /\ search_kwargs.has_where <=> Supplied # {}
           /\ Supplied = {} => Len(relevant_chunks) = UnfilteredCount

\* C8 witness: subject "Mathematics" and a second predicate were supplied, the
\* index holds a matching Mathematics chunk and a "Science" chunk above the
\* threshold, and only the Mathematics chunk was returned.
C8_Witness ==
    /\ pc = "RETRIEVED"
    /\ request.subject = "Mathematics" /\ request.education_level = "Primary"
    /\ \E i \in 1..Len(collection) :
          /\ "subject" \in DOMAIN collection[i].metadata
          /\ collection[i].metadata.subject = "Science"
          /\ One - collection[i].distance >= MinScore
    /\ Len(relevant_chunks) = 1
    /\ relevant_chunks[1].metadata.subject = "Mathematics"

\* C9: on the answered path the confidence label is "high" exactly when the
\* mean similarity of the selected chunks is > 0.7, "medium" exactly when it is
\* > 0.5 and <= 0.7, and "low" otherwise (0.82 -> high, 0.6 -> medium,
\* 0.4 -> low, exactly 0.7 -> medium, exactly 0.5 -> low).
MeanIs(hundredths) == SumScores(selected_chunks) = hundredths * Len(selected_chunks)

C9_ConfidenceGrading ==
    Answered =>
        LET n == Len(selected_chunks)
            total == SumScores(selected_chunks)
        IN  /\ n >= 1
            /\ result.confidence \in {"high", "medium", "low"}
            /\ result.confidence = "high" <=> total > 70 * n
            /\ result.confidence = "medium" <=> (total > 50 * n /\ total <= 70 * n)
            /\ result.confidence = "low" <=> total <= 50 * n
            /\ MeanIs(82) => result.confidence = "high"
            /\ MeanIs(60) => result.confidence = "medium"
            /\ MeanIs(40) => result.confidence = "low"
            /\ MeanIs(70) => result.confidence = "medium"
            /\ MeanIs(50) => result.confidence = "low"

\* C9 witness: two chunks were selected, their mean similarity is exactly 0.7,
\* and the label is "medium".
C9_Witness ==
    /\ Answered
    /\ Len(selected_chunks) = 2
    /\ MeanIs(70)
    /\ result.confidence = "medium"

\* C10 (as claimed): every chunk emitted by chunk_text has a character length
\* <= chunk_size, for every page text and every 0 <= chunk_overlap < chunk_size.
C10_ChunkLengthBounded ==
    \A i \in 1..Len(chunks) :
        /\ Len(chunks[i].content) <= chunk_size
        /\ chunks[i].character_count <= chunk_size

\* the page _split_text_into_chunks is working on, and whether it is inside it
CurrentText == pages[Len(pages)].content
InSplit == cpc \in {"loop", "emit"}

\* C11: for every page text, every chunk_size > 0 and 0 <= chunk_overlap <
\* chunk_size, the cursor `start` of _split_text_into_chunks is strictly greater
\* after every iteration than before it, so the loop ends after at most
\* len(text) iterations.
C11_CursorStrictlyIncreases ==
    /\ \A k \in 1..(Len(windows) - 1) : windows[k + 1].start > windows[k].start
    /\ InSplit =>
         /\ windows # <<>> => start > windows[Len(windows)].start
         /\ Len(windows) <= start
         /\ Len(windows) <= Len(CurrentText)
         /\ cpc = "loop" => start < Len(CurrentText)

\* C11 witness: an iteration whose chunk ended no more than chunk_overlap
\* characters after its start, so that end - chunk_overlap would not have moved
\* the cursor, and the cursor moved on by one.
C11_Witness ==
    /\ InSplit /\ windows # <<>>
    /\ LET w == windows[Len(windows)]
       IN  /\ w.end - chunk_overlap <= w.start
           /\ start = w.start + 1

\* C12 (as claimed): the chunks emitted for a page, in order, each without the
\* part it shares with the end of its predecessor, concatenate to exactly the
\* page's text.  The shared part is any prefix of the chunk that is a suffix of
\* the predecessor, so the statement is read in the way most favourable to it.
IsPrefix(p, s) == Len(p) <= Len(s) /\ SubSeq(s, 1, Len(p)) = p
Suffix(s, n) == SubSeq(s, Len(s) - n + 1, Len(s))
Drop(s, n) == SubSeq(s, n + 1, Len(s))

RECURSIVE Reassembles(_, _, _)
Reassembles(rest, prev, chs) ==
    IF chs = <<>> THEN rest = <<>>
    ELSE \E o \in 0..Min(Len(prev), Len(Head(chs))) :
           /\ Suffix(prev, o) = SubSeq(Head(chs), 1, o)
           /\ IsPrefix(Drop(Head(chs), o), rest)
           /\ Reassembles(Drop(rest, Len(Head(chs)) - o), Head(chs), Tail(chs))

C12_ChunksReassemblePage ==
    cpc = "emit" => Reassembles(CurrentText, <<>>, page_chunks)

\* the pages chunk_text has finished with, and the chunks it emitted for page p
PagesDone == IF cpc \in {"page", "done"} THEN Len(pages) ELSE Len(pages) - 1
ChunksOfPage(p) == SelectSeq(chunks, LAMBDA c : c.page_number = p)

\* C13: for every page whose text is non-empty and no longer than chunk_size,
\* chunk_text emits exactly one chunk for that page, and its content is the
\* page's whole text.
C13_ShortPageIsOneChunk ==
    \A p \in 1..PagesDone :
        (pages[p].content # <<>> /\ Len(pages[p].content) <= chunk_size)
            => /\ Len(ChunksOfPage(p)) = 1
               /\ ChunksOfPage(p)[1].content = pages[p].content
               /\ ChunksOfPage(p)[1].character_count = Len(pages[p].content)

\* C13 witness: the second page of a call fits in one chunk, begins with a blank
\* and was emitted whole, blank included, after a first page that was split.
C13_Witness ==
    /\ cpc = "done" /\ Len(pages) = 2
    /\ Len(pages[1].content) > chunk_size
    /\ Len(pages[2].content) \in 2..chunk_size
    /\ IsSpace(pages[2].content[1])
    /\ chunks[Len(chunks)].content = pages[2].content

C15_GlobalChunkIndex ==
    /\ \A i \in 1..Len(chunks) : chunks[i].chunk_index = i - 1
    /\ chunk_index = Len(chunks)

\* C15 witness: a finished call whose first page was empty and skipped, whose
\* last page lost a blank window, and whose chunks come from two pages.
C15_Witness ==
    /\ cpc = "done" /\ Len(pages) >= 2
    /\ pages[1].content = <<>>
    /\ \E k \in 1..Len(windows) : ~windows[k].kept
    /\ Len(chunks) >= 2
    /\ chunks[1].page_number # chunks[Len(chunks)].page_number
    /\ chunks[Len(chunks)].chunk_index = Len(chunks) - 1

\* a finished call with one page of ScenarioPageLen characters, chunk_size
\* 1000 and chunk_overlap 200
ScenarioDone ==
    /\ cpc = "done" /\ Len(pages) = 1
    /\ Len(pages[1].content) = ScenarioPageLen
    /\ chunk_size = DefaultChunkSize /\ chunk_overlap = DefaultChunkOverlap

TwoOverlappingChunks ==
    /\ Len(chunks) = 2
    /\ Len(windows) = 2
    /\ windows[2].start <= windows[1].end

Trimmed(text) == text # <<>> /\ ~IsSpace(text[1]) /\ ~IsSpace(text[Len(text)])

C17_MalformedParametersRejected ==
    Malformed(chunk_size, chunk_overlap)
        => /\ cpc \notin {"loop", "emit", "done"}
           /\ chunks = <<>>
           /\ page_chunks = <<>>

\* the uploads that carried content h, and the processing started for it
UploadsOf(h) == { r \in Uploads : uploads[r].file_hash = h }
StartsOf(h) == { i \in 1..Len(starts) : uploads[starts[i]].file_hash = h }
TasksOf(h) == { r \in UploadsOf(h) : tasks[r] # "none" }

PurgeSucceeded == purge.pc = "done" /\ purge.response.status_code = 200

\* C18 (as claimed): after delete_document returns success, neither the tables
\* nor the vector index hold a chunk or vector of that document, and the chunks
\* and vectors of every other document are as they were before the call.
C18_PurgeLeavesNothing ==
    PurgeSucceeded =>
        LET id == purge.document_id
        IN  /\ get_by_id(documents, id) = {}
            /\ OfDocument(chunk_rows, id) = {}
            /\ OfDocument(vectors, id) = {}
            /\ chunk_rows = purge.rows_before \ OfDocument(purge.rows_before, id)
            /\ vectors = purge.vectors_before \ OfDocument(purge.vectors_before, id)

\* C19 (as claimed): no purge ends with the Document row deleted while vectors
\* of that document remain in the index: whenever the handler is at rest, every
\* vector left in the index belongs to a document that still has its row, so
\* that a purge whose index deletion failed can be requested again.
C19_FailedIndexDeletionRetryable ==
    purge.pc \in {"idle", "done"} =>
        \A v \in vectors : get_by_id(documents, v.document_id) # {}

\* the 0-based positions i of a sentence terminator ('.', '!' or '?' followed
\* by whitespace) of text in the last half of the window that begins at cursor
TerminatorsInLastHalf(text, cursor, size) ==
    { i \in 0..(Len(text) - 2) :
        /\ 2 * i >= 2 * cursor + size
        /\ i <= cursor + size
        /\ text[i + 1] \in {".", "!", "?"}
        /\ IsSpace(text[i + 2]) }

\* C23 (as claimed): for every window that does not reach the end of the page,
\* if a sentence terminator lies in [cursor + max_chars/2, cursor + max_chars]
\* the chunk ends immediately after the one nearest to the window's end (after
\* the punctuation mark, or after the whitespace that follows it), and only if
\* none lies there the chunk ends exactly at cursor + max_chars.
C23_EndsAfterNearestTerminator ==
    InSplit =>
        \A k \in 1..Len(windows) :
            LET w == windows[k]
                found == TerminatorsInLastHalf(CurrentText, w.start, chunk_size)
            IN  w.start + chunk_size < Len(CurrentText) =>
                    IF found = {}
                    THEN w.end = w.start + chunk_size
                    ELSE LET nearest == CHOOSE i \in found : \A j \in found : j <= i
                         IN  w.end \in {nearest + 1, nearest + 2}

\* the span of the page text that the chunk emitted for window w occupies: the
\* window without the whitespace that strip() removed at either edge
EmittedSpan(text, w) ==
    LET raw == Slice(text, w.start, w.end)
        lead == Len(raw) - Len(LStrip(raw))
    IN  [start |-> w.start + lead, end |-> w.start + lead + Len(Strip(raw))]

\* the spans of the chunks emitted so far for the current page, in order
EmittedSpans ==
    LET kept == SelectSeq(windows, LAMBDA w : w.kept)
    IN  [k \in 1..Len(kept) |-> EmittedSpan(CurrentText, kept[k])]

\* C24 (as claimed): each chunk of a page after the first begins at or before
\* the position where the previous chunk of the page ended (no gap), and the two
\* spans overlap by at most chunk_overlap characters.
C24_NoGapBoundedOverlap ==
    InSplit =>
        LET spans == EmittedSpans
        IN  \A k \in 2..Len(spans) :
                /\ spans[k].start <= spans[k - 1].end
                /\ Min(spans[k - 1].end, spans[k].end) - spans[k].start <= chunk_overlap

\* the same two conditions on the windows the loop takes, before trimming and
\* whether or not the window's chunk is kept
WindowsNoGapBoundedOverlap ==
    InSplit =>
        \A k \in 2..Len(windows) :
            /\ windows[k].start <= windows[k - 1].end
            /\ Min(windows[k - 1].end, windows[k].end) - windows[k].start <= chunk_overlap

\* C30 (as claimed): no chunk emitted for a page is wholly contained in the span
\* of the chunk emitted just before it: once a chunk reaching the end of the
\* page has been emitted, no further chunk is emitted for that page.
C30_NoChunkInsidePrevious ==
    InSplit =>
        LET spans == EmittedSpans
        IN  \A k \in 2..Len(spans) :
                /\ ~(spans[k - 1].start <= spans[k].start /\ spans[k].end <= spans[k - 1].end)
                /\ spans[k - 1].end < Len(CurrentText)

\* C25: with citations enabled, the sources list of an answered query has
\* exactly one entry per selected chunk, in ranking order with ranks 1..n
\* (n = chunks_used), and each excerpt is the chunk's full content when it has
\* at most 200 characters and otherwise its first 200 characters followed by an
\* ellipsis marker.
C25_OneCitationPerSelectedChunk ==
    (Answered /\ request.include_citations) =>
        /\ Len(result.sources) = Len(selected_chunks)
        /\ Len(result.sources) = result.chunks_used
        /\ \A i \in 1..Len(result.sources) :
              LET source == result.sources[i]
                  content == selected_chunks[i].content
              IN  /\ source.id = i
                  /\ source.similarity_score = selected_chunks[i].similarity_score
                  /\ i > 1 => source.similarity_score <= result.sources[i - 1].similarity_score
                  /\ source.excerpt.chunk = content.chunk
                  /\ IF content.chars <= 200
                     THEN source.excerpt.chars = content.chars /\ ~source.excerpt.ellipsis
                     ELSE source.excerpt.chars = 200 /\ source.excerpt.ellipsis

\* C25 witness: an answered query with citations for two chunks, the first of
\* exactly 200 characters cited in full, the second cut to 200 with the marker
C25_Witness ==
    /\ Answered /\ request.include_citations
    /\ Len(result.sources) = 2
    /\ selected_chunks[1].content.chars = 200
    /\ ~result.sources[1].excerpt.ellipsis
    /\ selected_chunks[2].content.chars > 200
    /\ result.sources[2].excerpt.ellipsis

RetrievalFailed == exc \in {"embedding model failed", "vector index failed"}

\* C27: a failure of the embedding model or of the vector index during a query
\* is never reported as "no evidence": the no-evidence record (confidence
\* "low", chunks_used 0) is returned only when retrieval completed successfully
\* with zero results at or above the threshold, and a retrieval failure yields
\* the record with confidence "error".
C27_FailureIsNotNoEvidence ==
    Returned =>
        /\ (result.confidence = "low" /\ result.chunks_used = 0)
              => (RetrievalCompleted /\ Surviving = <<>>)
        /\ RetrievalFailed
              => (result.confidence = "error" /\ result = ErrorResult(request.query, exc))

\* C27 witness: the index failed on a query over a non-empty collection and
\* the record returned carries confidence "error"
C27_Witness ==
    /\ Returned
    /\ exc = "vector index failed"
    /\ collection # <<>>
    /\ result.confidence = "error"
    /\ result.chunks_used = 0

\* C21 (as claimed): running the ingestion of the same document more than once
\* leaves the vector index with the entries of a single ingestion: index writes
\* are keyed by a stable chunk identifier, so no chunk of the document (the
\* k-th chunk of a file content) is stored in two entries.
C21_NoChunkStoredTwice ==
    \A e1 \in vectors, e2 \in vectors : e1.content = e2.content => e1.id = e2.id

\* the latest direct call wrote again, without a fault of the embedding model
\* or the index, chunks that were all in the index under their ids, unchanged
RewroteStoredChunks ==
    /\ writes # <<>>
    /\ writes[1].chunks # {}
    /\ writes[1].failing = 0
    /\ \A c \in writes[1].chunks :
          \E e \in writes[1].before : e.id = c.id /\ e.content = c.content

C26_EntriesCarryDocumentMetadata ==
    \A e \in vectors :
        \A document \in get_by_id(documents, e.document_id) :
            /\ MatchesWhere(e.metadata,
                            WhereFilter(FilterConditions(EducationLevelRow.name,
                                                         document.subject, document.language)))
            /\ "filename" \in DOMAIN e.metadata
            /\ e.metadata.filename = document.filename

\* C28 (as claimed): processing_status moves pending -> processing ->
\* (completed | failed) in step with the background task, and once the task
\* has finished the status is completed or failed, whichever step failed.
C28_StatusFollowsProcessing ==
    \A document \in documents :
        /\ tasks[document.id] = "queued" => document.processing_status = "pending"
        /\ tasks[document.id] = "running" => document.processing_status = "processing"
        /\ tasks[document.id] = "finished"
              => document.processing_status \in {"completed", "failed"}

\* C29 (as claimed): whenever a document's processing_status is "completed",
\* its total_chunks equals both the number of Chunk rows stored for it and the
\* number of index entries whose document_id is that document; a document
\* whose status is "failed" has no entries in the index.
C29_CompletedCountsAgree ==
    \A document \in documents :
        /\ document.processing_status = "completed"
              => /\ document.total_chunks = Cardinality(OfDocument(chunk_rows, document.id))
                 /\ document.total_chunks = Cardinality(OfDocument(vectors, document.id))
        /\ document.processing_status = "failed"
              => OfDocument(vectors, document.id) = {}

=============================================================================
